---- MODULE Spec2Model ----
(***************************************************************************)
(* graphql/schema/request.go: schema.Operation resolves a Request against  *)
(* a schema into one Operation whose fragments are expanded in place by    *)
(* recursivelyExpandFragmentSelections.                                    *)
(*                                                                         *)
(* A query text is represented by what the parser makes of it: empty,      *)
(* malformed, or a document (operations and fragment definitions).  A      *)
(* selection is a record                                                   *)
(*    [kind, key, args, typ, sels]                                         *)
(* kind "Field"  : key = response key, args = argument value,              *)
(*                 typ = name of field.Definition.Type, sels = children    *)
(* kind "Inline" : typ = type condition, sels = children                   *)
(* kind "Spread" : key = name of the fragment definition                   *)
(* The Go tree is mutated through pointers; a field reached through two    *)
(* pointers is rewritten to the same value through either (the rewrite     *)
(* depends on the field's own type and selection set only), so the tree    *)
(* is kept by value here.                                                  *)
(***************************************************************************)
EXTENDS Integers, Sequences, FiniteSets, TLC

VARIABLES
  pc,        \* position in Operation: "start", "expand", "done", "panic"
  inSchema,  \* TRUE iff the receiver's schema is present (s, s.schema non-nil)
  req,       \* the *Request argument
  doc,       \* the parsed document, rewritten in place by the expansion
  op,        \* index in doc.ops of the selected operation, 0 = nil
  vars,      \* the coerced variables of the operation value
  err,       \* the error returned: [class, name], class "none" = nil
  ran,       \* the collaborators called so far, in call order
  topi,      \* position of the loop of line 78 in op.SelectionSet
  stack,     \* call stack of recursivelyExpandFragmentSelections
  calls,     \* number of calls of recursivelyExpandFragmentSelections so far
  last       \* arguments and result of the latest completed rewrite (lines 90-117)

vars_all == <<pc, inSchema, req, doc, op, vars, err, ran, topi, stack, calls, last>>

-----------------------------------------------------------------------------
(* Bounds *)

\* longest selection set written between one pair of braces
MaxSels == 2

-----------------------------------------------------------------------------
(* The schema index: type Query { pet: Animal  dog: Dog  any: Pet }        *)
(*   interface Animal { name: String  friend(n: Int): Animal }             *)
(*   type Dog implements Animal { name  friend  breed: String }            *)
(*   type Cat implements Animal { name  friend  lives: Int }               *)
(*   union Pet = Dog | Cat                                                 *)

\* schema.Types[name].Kind
Kind(t) ==
  CASE t \in {"Query", "Dog", "Cat"} -> "OBJECT"
    [] t = "Animal" -> "INTERFACE"
    [] t = "Pet" -> "UNION"
    [] OTHER -> "SCALAR"

\* schema.PossibleTypes[name]: the concrete types of an interface or union
\* (an object type is its own possible type)
PossibleTypes(t) ==
  CASE t \in {"Animal", "Pet"} -> <<"Dog", "Cat">>
    [] t \in {"Query", "Dog", "Cat"} -> <<t>>
    [] OTHER -> <<>>

\* schema.Implements[name]: the interfaces an object type declares and the
\* unions it is a member of
Implements(t) ==
  CASE t \in {"Dog", "Cat"} -> <<"Animal", "Pet">>
    [] OTHER -> <<>>

\* the fields a type declares, with the name of each field's type
FieldType(t, k) ==
  CASE t = "Query" /\ k = "pet" -> "Animal"
    [] t = "Query" /\ k = "dog" -> "Dog"
    [] t = "Query" /\ k = "any" -> "Pet"
    [] t \in {"Animal", "Dog", "Cat"} /\ k = "name" -> "String"
    [] t \in {"Animal", "Dog", "Cat"} /\ k = "friend" -> "Animal"
    [] t = "Dog" /\ k = "breed" -> "String"
    [] t = "Cat" /\ k = "lives" -> "Int"
    [] OTHER -> ""

Range(s) == {s[i] : i \in 1..Len(s)}

-----------------------------------------------------------------------------
(* Selections *)

Field(key, args, typ, sels) ==
  [kind |-> "Field", key |-> key, args |-> args, typ |-> typ, sels |-> sels]

InlineFragment(cond, sels) ==
  [kind |-> "Inline", key |-> "", args |-> 0, typ |-> cond, sels |-> sels]

FragmentSpread(name) ==
  [kind |-> "Spread", key |-> name, args |-> 0, typ |-> "", sels |-> <<>>]

\* doc.Fragments.ForName(name); validation guarantees that it is defined
FragmentForName(frags, name) ==
  frags[CHOOSE i \in 1..Len(frags) : frags[i].name = name]

-----------------------------------------------------------------------------
(* Requests.  Every operation of a generated document has the same         *)
(* selection set; an operation named "B" declares the variable $id: Int!.  *)

Name == Field("name", 0, "String", <<>>)
Breed == Field("breed", 0, "String", <<>>)
Lives == Field("lives", 0, "Int", <<>>)
Friend(sels) == Field("friend", 1, "Animal", sels)

\* fragment F on Pet { ... on Dog { friend(n: 1) { friend(n: 1) { name } } } }
FragF ==
  [name |-> "F", cond |-> "Pet",
   sels |-> <<InlineFragment("Dog", <<Friend(<<Friend(<<Name>>)>>)>>)>>]

\* fragment G on Animal { name friend(n: 1) { ... on Dog { breed } } }
FragG ==
  [name |-> "G", cond |-> "Animal",
   sels |-> <<Name, Friend(<<InlineFragment("Dog", <<Breed>>)>>)>>]

\* fragment Q on Query { pet { ... } }
FragQ(inner) ==
  [name |-> "Q", cond |-> "Query", sels |-> <<Field("pet", 0, "Animal", inner)>>]

\* the selections a composite field's braces are filled from
Pool ==
  { Name,
    Breed,
    Friend(<<Name>>),
    InlineFragment("Dog", <<Breed>>),
    InlineFragment("Animal", <<Friend(<<InlineFragment("Cat", <<Lives>>)>>),
                               InlineFragment("Cat", <<Lives>>)>>),
    FragmentSpread("F"),
    FragmentSpread("G") }

InnerSels == UNION {[1..n -> Pool] : n \in 1..MaxSels}

Uses(inner, name) == \E i \in 1..Len(inner) : inner[i] = FragmentSpread(name)

FragsFor(inner, withQ) ==
  (IF withQ THEN <<FragQ(inner)>> ELSE <<>>)
    \o (IF Uses(inner, "F") THEN <<FragF>> ELSE <<>>)
    \o (IF Uses(inner, "G") THEN <<FragG>> ELSE <<>>)

\* [sels, frags]: an operation's selection set and the fragments it uses
Shapes ==
  UNION { { [sels |-> <<Field("pet", 0, "Animal", inner)>>, frags |-> FragsFor(inner, FALSE)],
            [sels |-> <<Field("dog", 0, "Dog", inner)>>, frags |-> FragsFor(inner, FALSE)],
            [sels |-> <<Field("any", 0, "Pet", inner)>>, frags |-> FragsFor(inner, FALSE)],
            [sels |-> <<Field("dog", 0, "Dog", <<Name>>), Field("pet", 0, "Animal", inner)>>,
             frags |-> FragsFor(inner, FALSE)],
            [sels |-> <<FragmentSpread("Q")>>, frags |-> FragsFor(inner, TRUE)],
            [sels |-> <<InlineFragment("Query", <<Field("pet", 0, "Animal", inner)>>)>>,
             frags |-> FragsFor(inner, FALSE)] } : inner \in InnerSels }

OperationNameLists == {<<"">>, <<"B">>, <<"A", "B">>, <<"A", "A">>}

OperationDefinition(name, sels) ==
  [name |-> name, needsVar |-> (name = "B"), sels |-> sels]

Documents ==
  {[ops |-> <<>>, frags |-> <<>>]} \cup
  { [ops |-> [i \in 1..Len(ns) |-> OperationDefinition(ns[i], sh.sels)], frags |-> sh.frags] :
      ns \in OperationNameLists, sh \in Shapes }

NoDoc == [ops |-> <<>>, frags |-> <<>>]

Queries ==
  { [text |-> "empty", ops |-> <<>>, frags |-> <<>>],
    [text |-> "malformed", ops |-> <<>>, frags |-> <<>>] } \cup
  { [text |-> "document", ops |-> d.ops, frags |-> d.frags] : d \in Documents }

NilRequest ==
  [nil |-> TRUE, Query |-> [text |-> "empty", ops |-> <<>>, frags |-> <<>>],
   OperationName |-> "", Variables |-> "none"]

Requests ==
  {NilRequest} \cup
  [nil : {FALSE}, Query : Queries, OperationName : {"", "A", "B", "C"},
   Variables : {"none", "id"}]

-----------------------------------------------------------------------------
(* The collaborators of vektah/gqlparser, by their contracts *)

\* parser.ParseQuery
ParseQuery(q) ==
  IF q.text = "malformed"
  THEN [failed |-> TRUE, doc |-> NoDoc]
  ELSE [failed |-> FALSE, doc |-> [ops |-> q.ops, frags |-> q.frags]]

Overlap(a, b) == Range(PossibleTypes(a)) \cap Range(PossibleTypes(b)) # {}

RECURSIVE ValidSels(_, _, _)
ValidSels(sels, parent, frags) ==
  \A i \in 1..Len(sels) :
    LET sel == sels[i] IN
    CASE sel.kind = "Field" ->
           /\ FieldType(parent, sel.key) # ""
           /\ sel.typ = FieldType(parent, sel.key)
           /\ IF Kind(sel.typ) = "SCALAR"
              THEN sel.sels = <<>>
              ELSE sel.sels # <<>> /\ ValidSels(sel.sels, sel.typ, frags)
      [] sel.kind = "Inline" ->
           Overlap(sel.typ, parent) /\ ValidSels(sel.sels, sel.typ, frags)
      [] OTHER ->
           \E j \in 1..Len(frags) : frags[j].name = sel.key /\ Overlap(frags[j].cond, parent)

\* validator.Validate: TRUE iff the error list is empty
Validate(d) ==
  /\ \A i, j \in 1..Len(d.ops) : d.ops[i].name = d.ops[j].name => i = j
  /\ \A i \in 1..Len(d.ops) : d.ops[i].name = "" => Len(d.ops) = 1
  /\ \A i \in 1..Len(d.ops) : ValidSels(d.ops[i].sels, "Query", d.frags)
  /\ \A j \in 1..Len(d.frags) : ValidSels(d.frags[j].sels, d.frags[j].cond, d.frags)

\* ForName falling back to the sole operation whatever the name is
ForNameSoleOperation(ops, name) ==
  IF Len(ops) = 1 THEN 1
  ELSE LET m == {i \in 1..Len(ops) : ops[i].name = name}
       IN IF m = {} THEN 0 ELSE CHOOSE i \in m : \A j \in m : i <= j

\* doc.Operations.ForName: index of the operation, 0 for nil
ForName(ops, name) ==
  IF name = "" /\ Len(ops) = 1 THEN 1
  ELSE LET m == {i \in 1..Len(ops) : ops[i].name = name}
       IN IF m = {} THEN 0 ELSE CHOOSE i \in m : \A j \in m : i <= j

\* validator.VariableValues: [failed, vars]
VariableValues(o, supplied) ==
  IF o.needsVar /\ supplied = "none"
  THEN [failed |-> TRUE, vars |-> "none"]
  ELSE [failed |-> FALSE, vars |-> IF o.needsVar THEN supplied ELSE "none"]

-----------------------------------------------------------------------------
(* collectFields: the walk of a selection set that gathers the fields of   *)
(* the satisfying fragments, one entry per response key                    *)

instanceOf(cond, sat) == cond \in Range(sat)

\* the entry with cf's response key takes cf's sub-selections as well;
\* a new response key is appended
MergeField(grouped, cf) ==
  IF \E i \in 1..Len(grouped) : grouped[i].Field.key = cf.Field.key
  THEN [i \in 1..Len(grouped) |->
          IF grouped[i].Field.key = cf.Field.key
          THEN [grouped[i] EXCEPT !.Selections = @ \o cf.Selections]
          ELSE grouped[i]]
  ELSE Append(grouped, cf)

RECURSIVE MergeAll(_, _)
MergeAll(grouped, cfs) ==
  IF cfs = <<>> THEN grouped
  ELSE MergeAll(MergeField(grouped, Head(cfs)), Tail(cfs))

RECURSIVE collectInto(_, _, _, _)
collectInto(grouped, frags, selSet, sat) ==
  IF selSet = <<>> THEN grouped
  ELSE
    LET sel == Head(selSet)
        next ==
          CASE sel.kind = "Field" ->
                 MergeField(grouped, [Field |-> sel, Selections |-> sel.sels])
            [] sel.kind = "Inline" ->
                 IF instanceOf(sel.typ, sat)
                 THEN MergeAll(grouped, collectInto(<<>>, frags, sel.sels, sat))
                 ELSE grouped
            [] OTHER ->
                 LET fragment == FragmentForName(frags, sel.key) IN
                 IF instanceOf(fragment.cond, sat)
                 THEN MergeAll(grouped, collectInto(<<>>, frags, fragment.sels, sat))
                 ELSE grouped
    IN collectInto(next, frags, Tail(selSet), sat)

collectFields(frags, selSet, sat) == collectInto(<<>>, frags, selSet, sat)

-----------------------------------------------------------------------------
(* recursivelyExpandFragmentSelections, lines 88-123 *)

\* additionalTypes with the Interface branch reading the Implements table
additionalTypesInterfaceImplements(typeName) ==
  CASE Kind(typeName) = "INTERFACE" -> Implements(typeName)
    [] Kind(typeName) = "UNION" -> PossibleTypes(typeName)
    [] Kind(typeName) = "OBJECT" -> Implements(typeName)
    [] OTHER -> <<>>

\* additionalTypes with the Object branch reading the PossibleTypes table
additionalTypesObjectPossible(typeName) ==
  CASE Kind(typeName) = "INTERFACE" -> PossibleTypes(typeName)
    [] Kind(typeName) = "UNION" -> PossibleTypes(typeName)
    [] Kind(typeName) = "OBJECT" -> PossibleTypes(typeName)
    [] OTHER -> <<>>

\* lines 93-103: the types added to the field's own type name
additionalTypes(typeName) ==
  CASE Kind(typeName) = "INTERFACE" -> PossibleTypes(typeName)
    [] Kind(typeName) = "UNION" -> PossibleTypes(typeName)
    [] Kind(typeName) = "OBJECT" -> Implements(typeName)
    [] OTHER -> <<>>

\* lines 100-102: the default branch returns
ReturnsUnmodified(typeName) ==
  Kind(typeName) \notin {"INTERFACE", "UNION", "OBJECT"}

\* lines 91, 104-106
satisfies(typeName) == <<typeName>> \o additionalTypes(typeName)

\* lines 114-117: the new selection set is the Field of every collected entry
SelectionSetOf(collectedFields) ==
  [i \in 1..Len(collectedFields) |-> collectedFields[i].Field]

\* ExpandedField building a fresh field node that forgets the arguments
ExpandedFieldWithoutArguments(field, frags) ==
  [field EXCEPT !.args = 0,
                !.sels = SelectionSetOf(collectFields(frags, field.sels, satisfies(field.typ)))]

\* lines 90-117 on one field: the field with its selection set rewritten
ExpandedField(field, frags) ==
  [field EXCEPT !.sels = SelectionSetOf(collectFields(frags, field.sels, satisfies(field.typ)))]

RECURSIVE NodeAt(_, _)
NodeAt(sels, path) ==
  IF Len(path) = 1 THEN sels[path[1]]
  ELSE NodeAt(sels[path[1]].sels, Tail(path))

RECURSIVE ReplaceAt(_, _, _)
ReplaceAt(sels, path, node) ==
  IF Len(path) = 1 THEN [sels EXCEPT ![path[1]] = node]
  ELSE [sels EXCEPT ![path[1]] = [@ EXCEPT !.sels = ReplaceAt(@, Tail(path), node)]]

\* op.SelectionSet of the selected operation
SelectionSet == doc.ops[op].sels

Top == stack[Len(stack)]

Pop == SubSeq(stack, 1, Len(stack) - 1)

\* a loop that never leaves its first selection
NextIndexStuck(i) == i

\* the loops of lines 78 and 120 move to the next selection
NextIndex(i) == i + 1

NoRewrite ==
  [path |-> <<>>, typeName |-> "", satisfies |-> <<>>, before |-> FragmentSpread(""),
   after |-> <<>>, rewritten |-> FALSE]

NoError == [class |-> "none", name |-> ""]

-----------------------------------------------------------------------------
(* schema.Operation, lines 39-83 *)

Init ==
  /\ pc = "start"
  /\ inSchema \in BOOLEAN
  /\ req \in Requests
  /\ doc = NoDoc
  /\ op = 0
  /\ vars = "none"
  /\ err = NoError
  /\ ran = <<>>
  /\ topi = 1
  /\ stack = <<>>
  /\ calls = 0
  /\ last = NoRewrite

\* a return of (nil, error)
Fail(class, name, called) ==
  [pc |-> "done", doc |-> NoDoc, op |-> 0, vars |-> "none",
   err |-> [class |-> class, name |-> name], ran |-> called]

\* a check of the request pointer alone
EmptyInputNilOnly(r) == r.nil

\* line 40
EmptyInput(r) == r.nil \/ r.Query.text = "empty"

\* the test of line 54 with >= 1 for > 1
AmbiguousOperationFromOne(d, name) == Len(d.ops) >= 1 /\ name = ""

\* line 54
AmbiguousOperation(d, name) == Len(d.ops) > 1 /\ name = ""

\* lines 40-75: the outcome of the checks that precede the expansion.
\* s.schema at line 49 dereferences the receiver: a nil receiver panics there.
Resolve(r, schemaPresent) ==
  IF EmptyInput(r) THEN Fail("input", "", <<>>)
  ELSE
    LET parsed == ParseQuery(r.Query) IN
    IF parsed.failed THEN Fail("parse", "", <<"ParseQuery">>)
    ELSE IF ~schemaPresent
    THEN [pc |-> "panic", doc |-> parsed.doc, op |-> 0, vars |-> "none",
          err |-> NoError, ran |-> <<"ParseQuery">>]
    ELSE IF ~Validate(parsed.doc) THEN Fail("validation", "", <<"ParseQuery", "Validate">>)
    ELSE IF AmbiguousOperation(parsed.doc, r.OperationName)
    THEN Fail("ambiguous", "", <<"ParseQuery", "Validate">>)
    ELSE
      LET o == ForName(parsed.doc.ops, r.OperationName) IN
      IF o = 0
      THEN Fail("unknown", r.OperationName, <<"ParseQuery", "Validate", "ForName">>)
      ELSE
        LET coerced == VariableValues(parsed.doc.ops[o], r.Variables) IN
        IF coerced.failed
        THEN Fail("variable", "", <<"ParseQuery", "Validate", "ForName", "VariableValues">>)
        ELSE [pc |-> "expand", doc |-> parsed.doc, op |-> o, vars |-> coerced.vars,
              err |-> NoError,
              ran |-> <<"ParseQuery", "Validate", "ForName", "VariableValues">>]

\* lines 39-75
Operation ==
  /\ pc = "start"
  /\ LET out == Resolve(req, inSchema) IN
       /\ pc' = out.pc
       /\ doc' = out.doc
       /\ op' = out.op
       /\ vars' = out.vars
       /\ err' = out.err
       /\ ran' = out.ran
  /\ UNCHANGED <<inSchema, req, topi, stack, calls, last>>

\* lines 78-79: the next top-level selection is asserted to be a field and
\* expanded; the assertion panics on a fragment spread or inline fragment
ExpandTopLevel ==
  /\ pc = "expand"
  /\ stack = <<>>
  /\ topi <= Len(SelectionSet)
  /\ IF SelectionSet[topi].kind = "Field"
     THEN /\ stack' = <<[path |-> <<topi>>, i |-> 0]>>
          /\ topi' = NextIndex(topi)
          /\ calls' = calls + 1
          /\ pc' = pc
     ELSE /\ pc' = "panic"
          /\ UNCHANGED <<stack, topi, calls>>
  /\ ran' = IF topi = 1 THEN Append(ran, "expand") ELSE ran
  /\ UNCHANGED <<inSchema, req, doc, op, vars, err, last>>

\* lines 90-117: a call either returns at the default branch or rewrites
\* the field's selection set
RewriteSelectionSet ==
  /\ pc = "expand"
  /\ stack # <<>>
  /\ Top.i = 0
  /\ LET field == NodeAt(SelectionSet, Top.path)
         typeName == field.typ
     IN IF ReturnsUnmodified(typeName)
        THEN /\ stack' = Pop
             /\ doc' = doc
             /\ last' = [path |-> Top.path, typeName |-> typeName,
                         satisfies |-> <<typeName>>,
                         before |-> field, after |-> field.sels, rewritten |-> FALSE]
        ELSE LET expanded == ExpandedField(field, doc.frags) IN
             /\ doc' = [doc EXCEPT !.ops[op].sels = ReplaceAt(@, Top.path, expanded)]
             /\ stack' = [stack EXCEPT ![Len(stack)].i = 1]
             /\ last' = [path |-> Top.path, typeName |-> typeName,
                         satisfies |-> satisfies(typeName),
                         before |-> field, after |-> expanded.sels, rewritten |-> TRUE]
  /\ UNCHANGED <<pc, inSchema, req, op, vars, err, ran, topi, calls>>

\* lines 120-121: the call on the next field of the rewritten selection set
Recurse ==
  /\ pc = "expand"
  /\ stack # <<>>
  /\ Top.i >= 1
  /\ Top.i <= Len(NodeAt(SelectionSet, Top.path).sels)
  /\ stack' = Append([stack EXCEPT ![Len(stack)].i = NextIndex(Top.i)],
                     [path |-> Append(Top.path, Top.i), i |-> 0])
  /\ calls' = calls + 1
  /\ UNCHANGED <<pc, inSchema, req, doc, op, vars, err, ran, topi, last>>

\* line 123: the loop of line 120 is over, the call returns
Return ==
  /\ pc = "expand"
  /\ stack # <<>>
  /\ Top.i > Len(NodeAt(SelectionSet, Top.path).sels)
  /\ stack' = Pop
  /\ UNCHANGED <<pc, inSchema, req, doc, op, vars, err, ran, topi, calls, last>>

\* line 82
ReturnOperation ==
  /\ pc = "expand"
  /\ stack = <<>>
  /\ topi > Len(SelectionSet)
  /\ pc' = "done"
  /\ UNCHANGED <<inSchema, req, doc, op, vars, err, ran, topi, stack, calls, last>>

Next ==
  \/ Operation
  \/ ExpandTopLevel
  \/ RewriteSelectionSet
  \/ Recurse
  \/ Return
  \/ ReturnOperation

Spec == Init /\ [][Next]_vars_all

-----------------------------------------------------------------------------
(* Vocabulary of the properties *)

\* the document the request's query text denotes, as written
Written == [ops |-> req.Query.ops, frags |-> req.Query.frags]

Returned == pc = "done" /\ err.class = "none"

\* the request passed every check of lines 40-68
PassedChecks == pc # "start" /\ op # 0

RECURSIVE OnlyFields(_)
OnlyFields(sels) ==
  \A i \in 1..Len(sels) : sels[i].kind = "Field" /\ OnlyFields(sels[i].sels)

\* the fields a selection set contributes under a set of admitted type
\* conditions, fragment by fragment, before any merge
RECURSIVE Contributed(_, _, _)
Contributed(sels, frags, admitted) ==
  IF sels = <<>> THEN <<>>
  ELSE
    LET sel == Head(sels)
        here ==
          CASE sel.kind = "Field" -> <<sel>>
            [] sel.kind = "Inline" ->
                 IF sel.typ \in admitted THEN Contributed(sel.sels, frags, admitted) ELSE <<>>
            [] OTHER ->
                 LET def == FragmentForName(frags, sel.key) IN
                 IF def.cond \in admitted THEN Contributed(def.sels, frags, admitted) ELSE <<>>
    IN here \o Contributed(Tail(sels), frags, admitted)

Keys(sels) == {sels[i].key : i \in 1..Len(sels)}

DirectKeys(sels) == {sels[i].key : i \in {j \in 1..Len(sels) : sels[j].kind = "Field"}}

DirectFields(sels) == {sels[i] : i \in {j \in 1..Len(sels) : sels[j].kind = "Field"}}

\* the fields that reach a selection set through its fragments only
ViaFragments(sels, frags, admitted) ==
  Range(Contributed(SelectSeq(sels, LAMBDA x : x.kind # "Field"), frags, admitted))

-----------------------------------------------------------------------------
\* C1: a request that passes parsing, validation, operation selection and
\* variable coercion makes Operation return (it does not crash), and in the
\* Operation returned every selection reachable from the root is a Field.
C1_OnlyFieldsReturned ==
  PassedChecks =>
    /\ pc # "panic"
    /\ (pc = "done" => err.class = "none" /\ OnlyFields(SelectionSet))

\* C2: a response key selected directly and through an applicable fragment
\* with different sub-selections occurs exactly once in the rewritten
\* selection set, with the union of the sub-selections of both branches.
C2_MergedSubSelections ==
  last.rewritten =>
    \A d \in DirectFields(last.before.sels) :
      \A f \in ViaFragments(last.before.sels, doc.frags, Range(last.satisfies)) :
        (f.key = d.key /\ f.sels # d.sels) =>
          /\ Cardinality({i \in 1..Len(last.after) : last.after[i].key = d.key}) = 1
          /\ \A i \in 1..Len(last.after) :
               last.after[i].key = d.key =>
                 Range(last.after[i].sels) = Range(d.sels) \cup Range(f.sels)

\* C5: an absent schema, an absent request or an empty query text fails with
\* the input error before the parser is called, and no Operation is produced.
C5_InputErrorFirst ==
  (pc # "start" /\ (~inSchema \/ req.nil \/ req.Query.text = "empty")) =>
    /\ pc = "done"
    /\ err = [class |-> "input", name |-> ""]
    /\ ran = <<>>
    /\ op = 0

-----------------------------------------------------------------------------
\* C3: on a field of Interface or Union type a fragment contributes its
\* fields iff its type condition is the declared type name or one of its
\* possible concrete types, and direct fields are kept; for pet: Animal,
\* { name ... on Dog { breed } } becomes exactly [name, breed].
C3_InterfaceUnionFragments ==
  (last.rewritten /\ Kind(last.typeName) \in {"INTERFACE", "UNION"}) =>
    LET admitted == {last.typeName} \cup Range(PossibleTypes(last.typeName)) IN
    /\ Range(last.satisfies) = admitted
    /\ \A i \in 1..Len(last.after) : last.after[i].kind = "Field"
    /\ Keys(last.after) = Keys(Contributed(last.before.sels, doc.frags, admitted))
    /\ DirectKeys(last.before.sels) \subseteq Keys(last.after)
    /\ (last.typeName = "Animal" /\ last.before.sels = <<Name, InlineFragment("Dog", <<Breed>>)>>)
         => last.after = <<Name, Breed>>

\* the rewrite of pet { name ... on Dog { breed } } has happened
C3_Witness ==
  /\ last.rewritten
  /\ last.before = Field("pet", 0, "Animal", <<Name, InlineFragment("Dog", <<Breed>>)>>)
  /\ last.after = <<Name, Breed>>

\* C10: on a field of Object type the satisfies set is the declared type
\* name with the types of its implements relation; a fragment outside it
\* contributes nothing, a fragment inside it contributes all its fields.
C10_ObjectFragments ==
  (last.rewritten /\ Kind(last.typeName) = "OBJECT") =>
    LET admitted == {last.typeName} \cup Range(Implements(last.typeName)) IN
    /\ Range(last.satisfies) = admitted
    /\ Keys(last.after) = Keys(Contributed(last.before.sels, doc.frags, admitted))
    /\ \A i \in 1..Len(last.before.sels) :
         LET sel == last.before.sels[i] IN
         (sel.kind = "Inline" /\ sel.typ \in admitted) =>
           DirectKeys(sel.sels) \subseteq Keys(last.after)

\* dog { ... on Animal { friend {...} ... on Cat { lives } } }: the Animal
\* fragment is inside the set and gives friend, the Cat fragment is outside
C10_Witness ==
  /\ last.rewritten
  /\ last.typeName = "Dog"
  /\ \E i \in 1..Len(last.before.sels) :
       last.before.sels[i].kind = "Inline" /\ last.before.sels[i].typ = "Animal"
  /\ Keys(last.after) = {"friend"}

Header(f) == [key |-> f.key, args |-> f.args, typ |-> f.typ]

RECURSIVE Headers(_)
Headers(sels) ==
  UNION { (IF sels[i].kind = "Field" THEN {Header(sels[i])} ELSE {}) \cup Headers(sels[i].sels) :
            i \in 1..Len(sels) }

WrittenHeaders ==
  UNION ({Headers(Written.ops[i].sels) : i \in 1..Len(Written.ops)} \cup
         {Headers(Written.frags[j].sels) : j \in 1..Len(Written.frags)})

IsProperPrefix(p, q) == Len(p) < Len(q) /\ SubSeq(q, 1, Len(p)) = p

\* C8: the expansion leaves the response key and the arguments of every
\* field as written and changes only the membership of selection sets; a
\* field of a type that is no Object, Interface or Union keeps its selection
\* set and is not recursed into.
C8_KeysAndArgumentsKept ==
  PassedChecks =>
    /\ Headers(SelectionSet) \subseteq WrittenHeaders
    /\ \A i \in 1..Len(SelectionSet) :
         SelectionSet[i].kind = "Field" =>
           Header(SelectionSet[i]) = Header(Written.ops[op].sels[i])
    /\ last.path # <<>> =>
         /\ Header(NodeAt(SelectionSet, last.path)) = Header(last.before)
         /\ \A i \in 1..Len(last.after) :
              \E f \in Range(Contributed(last.before.sels, doc.frags, Range(last.satisfies))) :
                Header(last.after[i]) = Header(f)
    /\ (last.path # <<>> /\ Kind(last.typeName) \notin {"OBJECT", "INTERFACE", "UNION"}) =>
         /\ ~last.rewritten
         /\ NodeAt(SelectionSet, last.path) = last.before
         /\ \A k \in 1..Len(stack) : ~IsProperPrefix(last.path, stack[k].path)

\* a friend(n: 1) field has been rewritten and the call on its scalar child
\* name has returned
C8_Witness ==
  /\ pc = "expand"
  /\ ~last.rewritten
  /\ last.before = Name
  /\ Len(last.path) = 3
  /\ LET parent == NodeAt(SelectionSet, SubSeq(last.path, 1, 2)) IN
       parent.key = "friend" /\ parent.args = 1 /\ OnlyFields(parent.sels)

Max(S) == IF S = {} THEN 0 ELSE CHOOSE x \in S : \A y \in S : y <= x

\* depth of a selection tree as written: nested pairs of braces
RECURSIVE Depth(_)
Depth(sels) ==
  IF sels = <<>> THEN 0 ELSE 1 + Max({Depth(sels[i].sels) : i \in 1..Len(sels)})

\* nesting of fields once every fragment is replaced by its selection set
RECURSIVE InlinedDepth(_, _)
InlinedDepth(sels, frags) ==
  Max({ CASE sels[i].kind = "Field" -> 1 + InlinedDepth(sels[i].sels, frags)
          [] sels[i].kind = "Inline" -> InlinedDepth(sels[i].sels, frags)
          [] OTHER -> InlinedDepth(FragmentForName(frags, sels[i].key).sels, frags) :
        i \in 1..Len(sels) })

\* number of fields once every fragment is replaced by its selection set
RECURSIVE InlinedFields(_, _)
InlinedFields(sels, frags) ==
  IF sels = <<>> THEN 0
  ELSE (CASE Head(sels).kind = "Field" -> 1 + InlinedFields(Head(sels).sels, frags)
          [] Head(sels).kind = "Inline" -> InlinedFields(Head(sels).sels, frags)
          [] OTHER -> InlinedFields(FragmentForName(frags, Head(sels).key).sels, frags))
       + InlinedFields(Tail(sels), frags)

\* C9 as stated: the recursion is never deeper than the operation's
\* selection tree as written, before expansion.
C9_DepthWithinWrittenTree ==
  PassedChecks => Len(stack) <= Depth(Written.ops[op].sels)

\* C9 amended: the expansion terminates (it makes no more calls than the
\* operation has fields once fragments are inlined, and each call's loop
\* runs once over its selection set), and the recursion is never deeper than
\* the nesting of fields of the operation's selection tree with every
\* fragment replaced by its definition's selection set.
C9_DepthWithinInlinedTree ==
  PassedChecks =>
    /\ Len(stack) <= InlinedDepth(Written.ops[op].sels, Written.frags)
    /\ calls <= InlinedFields(Written.ops[op].sels, Written.frags)
    /\ topi <= Len(SelectionSet) + 1
    /\ \A k \in 1..Len(stack) :
         stack[k].i <= Len(NodeAt(SelectionSet, stack[k].path).sels) + 1

\* a call nested deeper than the operation as written, on a field that a
\* fragment definition contributed
C9_Witness ==
  /\ PassedChecks
  /\ Len(stack) > Depth(Written.ops[op].sels)
  /\ Len(stack) = InlinedDepth(Written.ops[op].sels, Written.frags)

-----------------------------------------------------------------------------
(* The checks a request would fail, each taken on its own *)

FailsInput == req.nil \/ req.Query.text = "empty"

FailsParse == req.Query.text = "malformed"

FailsValidation == req.Query.text = "document" /\ ~Validate(Written)

FailsAmbiguous == Len(Written.ops) >= 2 /\ req.OperationName = ""

Named(name) == {i \in 1..Len(Written.ops) : Written.ops[i].name = name}

FailsUnknown ==
  /\ Named(req.OperationName) = {}
  /\ ~(req.OperationName = "" /\ Len(Written.ops) = 1)

\* the operation the request designates needs a variable the request lacks
FailsVariable ==
  /\ req.Variables = "none"
  /\ \/ Len(Written.ops) = 1 /\ req.OperationName = "" /\ Written.ops[1].needsVar
     \/ \E i \in Named(req.OperationName) : Written.ops[i].needsVar

EarliestFailure ==
  CASE FailsInput -> "input"
    [] FailsParse -> "parse"
    [] FailsValidation -> "validation"
    [] FailsAmbiguous -> "ambiguous"
    [] FailsUnknown -> "unknown"
    [] FailsVariable -> "variable"
    [] OTHER -> "none"

\* the collaborators called when the checks stop at a class
CalledUpTo(class) ==
  CASE class = "input" -> <<>>
    [] class = "parse" -> <<"ParseQuery">>
    [] class \in {"validation", "ambiguous"} -> <<"ParseQuery", "Validate">>
    [] class = "unknown" -> <<"ParseQuery", "Validate", "ForName">>
    [] OTHER -> <<"ParseQuery", "Validate", "ForName", "VariableValues">>

\* C4: the error returned is that of the earliest failing class in the order
\* input, parse, validation, ambiguous, unknown, variable; after a failure
\* no later stage and no expansion runs, and no Operation comes with an error.
C4_EarliestErrorClass ==
  pc = "done" =>
    /\ err.class = EarliestFailure
    /\ err.class # "none" =>
         /\ ran = CalledUpTo(err.class)
         /\ calls = 0
         /\ op = 0
         /\ doc = NoDoc
    /\ err.class = "none" => op # 0

\* a request that fails validation, is ambiguous and lacks a variable
\* returned the validation error
C4_Witness ==
  /\ pc = "done"
  /\ FailsValidation /\ FailsAmbiguous /\ FailsUnknown
  /\ req.Variables = "none"
  /\ err.class = "validation"

ValidatedDocument == inSchema /\ ~req.nil /\ req.Query.text = "document" /\ Validate(Written)

C7_UnknownOperationName ==
  (pc # "start" /\ ValidatedDocument /\ req.OperationName # ""
     /\ Named(req.OperationName) = {}) =>
    /\ pc = "done"
    /\ err = [class |-> "unknown", name |-> req.OperationName]
    /\ "VariableValues" \notin Range(ran)
    /\ op = 0

\* a document of one operation, B, asked for operation A
C7_Witness ==
  /\ pc = "done"
  /\ ValidatedDocument
  /\ Len(Written.ops) = 1
  /\ req.OperationName = "A"
  /\ Written.ops[1].name = "B"
  /\ err = [class |-> "unknown", name |-> "A"]

====
